---- MODULE Spec2Model ----
\* MESH generic receiver (examples/receivers/generic-receiver.py): the
\* envelope-handling pipeline of one receiver process behind a
\* single-threaded HTTPServer.  One request is handled at a time; the steps
\* of do_POST are separate actions at its blocking points (audit file write,
\* handler subprocess, outbound reply call).
EXTENDS Integers, Sequences, FiniteSets, TLC

\* ---------------------------------------------------------------- bounds
\* POSTs that get as far as the inbox in one run of Spec.
MaxPosts == 2
\* POSTs that get as far as the inbox in one run of SpecStream.
MaxStream == 102

\* ------------------------------------------------------- program constants
MAX_INBOX == 100
MESH_AGENT == "me"

\* ------------------------------------------------------------ JSON values
\* A key that a dict does not have, and Python's None / JSON null.
Absent == "<absent>"
Null == "<null>"
\* A JSON number where a string is expected (not subscriptable).
Num7 == "<7>"

\* dict.get(key, default) on a field of a modelled dict.
Get(v, default) == IF v = Absent THEN default ELSE v

\* Python truthiness of a scalar field value.
TruthyVal(v) == v \notin {Absent, Null, ""}

\* payload: shape "absent" (no key), "dict", "other" (a non-dict JSON value).
Payload(shape, subject, body) == [shape |-> shape, subject |-> subject, body |-> body]
NoPayload == Payload("absent", Absent, Absent)

\* replyTo: shape "absent" (no key), "dict", "other" (a truthy non-dict value).
ReplyTo(shape, url, token) == [shape |-> shape, url |-> url, token |-> token]
NoReplyTo == ReplyTo("absent", Absent, Absent)

Envelope(id, from, to, type, replyTo, replyContext, payload) ==
    [id |-> id, from |-> from, to |-> to, type |-> type, replyTo |-> replyTo,
     replyContext |-> replyContext, payload |-> payload]

\* The envelope substituted for a nested message that is not JSON (line 99).
Synthetic(message_raw) ==
    Envelope(Absent, Absent, Absent, Absent, NoReplyTo, Absent,
             Payload("dict", Absent, message_raw))

\* The length of the subject prefix do_POST prints (subject[:60], line 108).
SubjectPrefix == 60

\* ----------------------------------------------------------------- inputs
U1 == ReplyTo("dict", "http://a/cb", "t1")

\* A subject of 68 characters.
LongSubject == "quarterly report: xxxxxxxxxxxxxxxxxxxxxxxxxxxxxxxxxxxxxxxxxxxxxxxxxx"

Envelopes ==
    { Envelope("m1", "a", "me", "request", U1, "c1", Payload("dict", "hi", "hello")),
      Envelope("m2", "a", "me", "notification", U1, Absent, Payload("dict", "hi", "hello")),
      Envelope("m3", "b", Absent, "request", NoReplyTo, Absent, Payload("dict", Absent, "x")),
      Envelope("m4", "a", "me", "request", ReplyTo("other", Absent, Absent), Absent, NoPayload),
      Envelope(Absent, Absent, Absent, "request", ReplyTo("dict", "http://a/cb", Absent),
               Absent, NoPayload),
      Envelope("m5", "a", "me", "request", ReplyTo("dict", Absent, "t1"), "c1", NoPayload),
      Envelope("m6", "a", "me", Absent, U1, Absent, Payload("dict", LongSubject, Absent)),
      Envelope("m7", "a", "me", "request", U1, Absent, Payload("other", Absent, Absent)),
      Envelope("m8", "a", "me", "request", U1, Absent, Payload("dict", Num7, "x")) }

NoEnvelope == Envelope(Absent, Absent, Absent, Absent, NoReplyTo, Absent, NoPayload)

\* The nested `message` value: kind "absent" (no key), "string" (text is the
\* string; loads/env say what json.loads makes of it), "object" (an embedded
\* dict, env), "other" (any other JSON value: number, list, null).
Message(kind, text, loads, env) == [kind |-> kind, text |-> text, loads |-> loads, env |-> env]

Messages ==
    { Message("absent", "", "invalid", NoEnvelope),
      Message("string", "not json", "invalid", NoEnvelope),
      Message("string", "5", "nondict", NoEnvelope),
      Message("other", "", "nondict", NoEnvelope) }
    \cup { Message("string", "<json>", "dict", e) : e \in { f \in Envelopes : f.id \in {"m1", "m2"} } }
    \cup { Message("object", "", "dict", e) : e \in Envelopes }

\* The POST body: outer "invalid" (not JSON), "nonobject" (JSON, not a dict),
\* "object" (a dict, with its message).
Body(outer, message) == [outer |-> outer, message |-> message]
NoMessage == Message("absent", "", "invalid", NoEnvelope)

Bodies ==
    { Body("invalid", NoMessage), Body("nonobject", NoMessage) }
    \cup { Body("object", m) : m \in Messages }

\* The POSTs: every body to "/", and one to a path that is no route.
Post(path, body) == [path |-> path, body |-> body]

Posts ==
    { Post("/", b) : b \in Bodies }
    \cup { Post("/other", b) :
              b \in { c \in Bodies : c.outer = "object" /\ c.message.env.id = "m3" } }

\* What the handler process did: how it ended and what it wrote to stdout.
HandlerRun(how, stdout) == [how |-> how, stdout |-> stdout]

Stdouts ==
    { "", "  ", "{\"body\": \"ok\"}", "{\"result\":1}", "{}", "[1]", "\"done\"", "0",
      "done\n" }

HandlerRuns ==
    { HandlerRun("exit0", s) : s \in Stdouts }
    \cup { HandlerRun("nonzero", ""), HandlerRun("nonzero", "{\"body\": \"ok\"}"),
           HandlerRun("timeout", ""), HandlerRun("exception", "") }

\* ------------------------------------------------- handler response values
\* A Python value the dispatcher returns: shape "none" (None), "dict", "list",
\* "str", "num"; empty says whether it is falsy; body is its "body" key (a
\* dict only); text is what json.dumps makes of it.
Value(shape, empty, body, text) == [shape |-> shape, empty |-> empty, body |-> body, text |-> text]
None == Value("none", TRUE, Absent, "null")
Invalid == Value("invalid", TRUE, Absent, "")

\* str.strip() on the handler's stdout.
Strip(s) ==
    CASE s = "  " -> ""
      [] s = "done\n" -> "done"
      [] OTHER -> s

\* json.loads on the stripped stdout; Invalid stands for JSONDecodeError.
JsonLoads(s) ==
    CASE s = "{\"body\": \"ok\"}" -> Value("dict", FALSE, "ok", "{\"body\": \"ok\"}")
      [] s = "{\"result\":1}" -> Value("dict", FALSE, Absent, "{\"result\": 1}")
      [] s = "{}" -> Value("dict", TRUE, Absent, "{}")
      [] s = "[1]" -> Value("list", FALSE, Absent, "[1]")
      [] s = "\"done\"" -> Value("str", FALSE, Absent, "\"done\"")
      [] s = "0" -> Value("num", TRUE, Absent, "0")
      [] OTHER -> Invalid

JsonDumps(v) == v.text

\* Python truthiness of a response value.
Truthy(v) == ~v.empty

\* dispatch_to_handler without the returncode test of line 66.
dispatch_to_handler_IgnoresExit(run) ==
    IF Strip(run.stdout) # ""
    THEN IF JsonLoads(Strip(run.stdout)) # Invalid
         THEN JsonLoads(Strip(run.stdout))
         ELSE Value("dict", FALSE, Strip(run.stdout),
                    "{\"body\": \"" \o Strip(run.stdout) \o "\"}")
    ELSE None

\* dispatch_to_handler once HANDLER is known to be set (lines 58-74).
dispatch_to_handler(run) ==
    IF run.how = "exit0" /\ Strip(run.stdout) # ""
    THEN IF JsonLoads(Strip(run.stdout)) # Invalid
         THEN JsonLoads(Strip(run.stdout))
         ELSE Value("dict", FALSE, Strip(run.stdout),
                    "{\"body\": \"" \o Strip(run.stdout) \o "\"}")
    ELSE None

\* ------------------------------------------------------------------ state
VARIABLES
    HANDLER,    \* whether MESH_HANDLER is set (line 27)
    inbox,      \* message_inbox (line 31)
    audit,      \* the lines of LOG_FILE, mesh-audit.jsonl (line 28)
    received,   \* every envelope do_POST decoded, in arrival order
    pc,         \* where the request being served is in do_POST ("idle": none)
    cur,        \* the request being served, or the last one served
    response,   \* what dispatch_to_handler returned for it
    invoked,    \* whether subprocess.run was called for it
    replies,    \* the outbound calls urlopen made for it
    resp        \* the HTTP response the last served request got

vars == <<HANDLER, inbox, audit, received, pc, cur, response, invoked, replies, resp>>

Request(method, path, body, envelope, run) ==
    [method |-> method, path |-> path, body |-> body, envelope |-> envelope, run |-> run]

NoRun == HandlerRun("none", "")
NoBody == Body("invalid", NoMessage)

\* status 0: the handler raised, the server closed the connection unanswered.
Resp(status, kind, id, messages, count) ==
    [status |-> status, kind |-> kind, id |-> id, messages |-> messages, count |-> count]
Dropped == Resp(0, "dropped", Absent, <<>>, 0)
NoResp == Resp(0, "none", Absent, <<>>, 0)

Init ==
    /\ HANDLER \in BOOLEAN
    /\ inbox = <<>>
    /\ audit = <<>>
    /\ received = <<>>
    /\ pc = "idle"
    /\ cur = Request("none", "", NoBody, NoEnvelope, NoRun)
    /\ response = None
    /\ invoked = FALSE
    /\ replies = <<>>
    /\ resp = NoResp

\* ---------------------------------------------------------------- do_POST
Decoded(outcome, envelope) == [outcome |-> outcome, envelope |-> envelope]

\* ParseOuter without the except clause's early return: a body that is not
\* JSON goes on as an empty object.
ParseOuter_Lenient(body) == "object"

\* Lines 86-92: json.loads(body); "malformed" stands for JSONDecodeError.
ParseOuter(body) == IF body.outer = "invalid" THEN "malformed" ELSE body.outer

\* ExtractEnvelope without the except clause of line 98: a nested message
\* that is not JSON raises.
ExtractEnvelope_NoFallback(message) ==
    IF message.loads = "dict"
    THEN Decoded("ok", message.env)
    ELSE Decoded("raise", NoEnvelope)

\* Lines 95-99: the nested message, as the envelope or the synthetic one;
\* "raise" when the value .get is then called on is no dict.
ExtractEnvelope(message) ==
    LET message_raw == IF message.kind = "absent"
                       THEN Message("string", "", "invalid", NoEnvelope)
                       ELSE message
    IN  IF message_raw.kind = "string" /\ message_raw.loads = "invalid"
        THEN Decoded("ok", Synthetic(message_raw.text))
        ELSE IF message_raw.loads = "dict"
             THEN Decoded("ok", message_raw.env)
             ELSE Decoded("raise", NoEnvelope)

\* Lines 102-108: the fields read off the envelope before it is logged;
\* payload must be a dict (or missing) and subject must take a slice.
ReadFields(envelope) ==
    IF envelope.payload.shape = "other"
    THEN "raise"
    ELSE IF Get(envelope.payload.subject, "") \in {Num7, Null}
         THEN "raise"
         ELSE "ok"

\* Lines 86-108 together: "malformed" (400), "raise" (an exception leaves
\* do_POST) or "ok" with the envelope.
Decode(body) ==
    IF ParseOuter(body) = "malformed"
    THEN Decoded("malformed", NoEnvelope)
    ELSE IF ParseOuter(body) = "nonobject"
         THEN Decoded("raise", NoEnvelope)
         ELSE IF ExtractEnvelope(body.message).outcome = "raise"
              THEN Decoded("raise", NoEnvelope)
              ELSE IF ReadFields(ExtractEnvelope(body.message).envelope) = "raise"
                   THEN Decoded("raise", NoEnvelope)
                   ELSE ExtractEnvelope(body.message)

\* log_message's entry (lines 39-47).
AuditEntry(envelope, status) ==
    [from |-> Get(envelope.from, "?"),
     to |-> Get(envelope.to, MESH_AGENT),
     type |-> Get(envelope.type, "?"),
     id |-> Get(envelope.id, "?"),
     subject |-> Get(envelope.payload.subject, ""),
     status |-> status]

Front(s) == SubSeq(s, 1, Len(s) - 1)

\* InboxAppend with the capacity test off by one.
InboxAppend_OffByOne(box, envelope) ==
    IF Len(Append(box, envelope)) > MAX_INBOX + 1
    THEN Tail(Append(box, envelope))
    ELSE Append(box, envelope)

\* InboxAppend with pop() for pop(0): the newest entry is dropped.
InboxAppend_PopNewest(box, envelope) ==
    IF Len(Append(box, envelope)) > MAX_INBOX
    THEN Front(Append(box, envelope))
    ELSE Append(box, envelope)

\* Lines 112-114: append, then drop the oldest entry when over capacity.
InboxAppend(box, envelope) ==
    IF Len(Append(box, envelope)) > MAX_INBOX
    THEN Tail(Append(box, envelope))
    ELSE Append(box, envelope)

\* Python truthiness of the replyTo value.
TruthyReplyTo(reply_to) ==
    \/ reply_to.shape = "other"
    \/ reply_to.shape = "dict" /\ (reply_to.url # Absent \/ reply_to.token # Absent)

\* Route without the msg_type test of line 120.
Route_AnyType(envelope, rsp) ==
    IF Truthy(rsp) /\ TruthyReplyTo(envelope.replyTo) /\ envelope.replyTo.shape = "dict"
       /\ TruthyVal(envelope.replyTo.url) /\ rsp.shape = "dict"
    THEN "send"
    ELSE "ack"

\* Lines 120-123 and 160-173: "ack" (no reply), "send" (the reply envelope is
\* built and handed to urlopen) or "raise" (.get on a value that is no dict).
Route(envelope, rsp) ==
    IF Truthy(rsp) /\ Get(envelope.type, "?") = "request"
    THEN IF ~TruthyReplyTo(envelope.replyTo)
         THEN "ack"
         ELSE IF envelope.replyTo.shape # "dict"
              THEN "raise"
              ELSE IF ~TruthyVal(envelope.replyTo.url)
                   THEN "ack"
                   ELSE IF rsp.shape # "dict" THEN "raise" ELSE "send"
    ELSE "ack"

\* ReplyEnvelope with from and to the wrong way round.
ReplyEnvelope_SwapsParties(original, rsp) ==
    [protocol |-> "mesh/1.0",
     id |-> "msg_<random>",
     from |-> Get(original.from, "?"),
     to |-> MESH_AGENT,
     type |-> "response",
     correlationId |-> Get(original.id, Null),
     replyContext |-> Get(original.replyContext, Null),
     payload |-> [subject |-> "Re: " \o Get(original.payload.subject, ""),
                  body |-> Get(rsp.body, JsonDumps(rsp))]]

\* ReplyEnvelope built as a copy of the request: its type and replyTo are
\* kept.
ReplyEnvelope_EchoesRequest(original, rsp) ==
    [protocol |-> "mesh/1.0",
     id |-> "msg_<random>",
     from |-> MESH_AGENT,
     to |-> Get(original.from, "?"),
     type |-> original.type,
     replyTo |-> original.replyTo,
     correlationId |-> Get(original.id, Null),
     replyContext |-> Get(original.replyContext, Null),
     payload |-> [subject |-> "Re: " \o Get(original.payload.subject, ""),
                  body |-> Get(rsp.body, JsonDumps(rsp))]]

\* The reply envelope of _send_reply (lines 160-173); id and timestamp are
\* fresh values no claim reads.
ReplyEnvelope(original, rsp) ==
    [protocol |-> "mesh/1.0",
     id |-> "msg_<random>",
     from |-> MESH_AGENT,
     to |-> Get(original.from, "?"),
     type |-> "response",
     correlationId |-> Get(original.id, Null),
     replyContext |-> Get(original.replyContext, Null),
     payload |-> [subject |-> "Re: " \o Get(original.payload.subject, ""),
                  body |-> Get(rsp.body, JsonDumps(rsp))]]

\* The outbound call of lines 175-184.
Outbound(reply_to, reply_envelope, delivered) ==
    [url |-> reply_to.url,
     authorization |-> "Bearer " \o Get(reply_to.token, ""),
     message |-> reply_envelope,
     delivered |-> delivered]

\* A POST arrives: lines 83-108.  do_POST never reads self.path.
Receive(path, body, cap) ==
    /\ pc = "idle"
    /\ Decode(body).outcome = "ok" => Len(received) < cap
    /\ cur' = Request("POST", path, body, Decode(body).envelope, NoRun)
    /\ response' = None
    /\ invoked' = FALSE
    /\ replies' = <<>>
    /\ CASE Decode(body).outcome = "malformed" ->
                /\ resp' = Resp(400, "error", Absent, <<>>, 0)
                /\ UNCHANGED <<pc, received>>
         [] Decode(body).outcome = "raise" ->
                /\ resp' = Dropped
                /\ UNCHANGED <<pc, received>>
         [] OTHER ->
                /\ pc' = "audit"
                /\ received' = Append(received, Decode(body).envelope)
                /\ resp' = NoResp
    /\ UNCHANGED <<HANDLER, inbox, audit>>

\* AuditWrite with the file opened "w" for "a": the log is overwritten.
AuditWrite_Truncates ==
    /\ pc = "audit"
    /\ audit' = <<AuditEntry(cur.envelope, "received")>>
    /\ pc' = "buffer"
    /\ UNCHANGED <<HANDLER, inbox, received, cur, response, invoked, replies, resp>>

\* log_message(envelope) writes its line (line 109).
AuditWrite ==
    /\ pc = "audit"
    /\ audit' = Append(audit, AuditEntry(cur.envelope, "received"))
    /\ pc' = "buffer"
    /\ UNCHANGED <<HANDLER, inbox, received, cur, response, invoked, replies, resp>>

\* log_message(envelope) fails to write; the exception is swallowed (line 50).
AuditFail ==
    /\ pc = "audit"
    /\ pc' = "buffer"
    /\ UNCHANGED <<HANDLER, inbox, audit, received, cur, response, invoked, replies, resp>>

\* Buffer moved ahead of log_message: the envelope is appended first.
Buffer_BeforeAudit ==
    /\ pc = "audit"
    /\ inbox' = InboxAppend(inbox, cur.envelope)
    /\ pc' = "dispatch"
    /\ UNCHANGED <<HANDLER, audit, received, cur, response, invoked, replies, resp>>

\* Lines 112-114.
Buffer ==
    /\ pc = "buffer"
    /\ inbox' = InboxAppend(inbox, cur.envelope)
    /\ pc' = "dispatch"
    /\ UNCHANGED <<HANDLER, audit, received, cur, response, invoked, replies, resp>>

\* DispatchNone without the test of line 56: the unset handler is run.
DispatchNone_RunsAnyway ==
    /\ pc = "dispatch"
    /\ ~HANDLER
    /\ invoked' = TRUE
    /\ response' = None
    /\ pc' = "route"
    /\ UNCHANGED <<HANDLER, inbox, audit, received, cur, replies, resp>>

\* dispatch_to_handler with no handler configured (lines 56-57).
DispatchNone ==
    /\ pc = "dispatch"
    /\ ~HANDLER
    /\ response' = None
    /\ pc' = "route"
    /\ UNCHANGED <<HANDLER, inbox, audit, received, cur, invoked, replies, resp>>

\* dispatch_to_handler runs the handler (lines 58-74).
DispatchRun(run) ==
    /\ pc = "dispatch"
    /\ HANDLER
    /\ invoked' = TRUE
    /\ cur' = [cur EXCEPT !.run = run]
    /\ response' = dispatch_to_handler(run)
    /\ pc' = "route"
    /\ UNCHANGED <<HANDLER, inbox, audit, received, replies, resp>>

\* Lines 120-123 up to the outbound call.
RouteReply ==
    /\ pc = "route"
    /\ CASE Route(cur.envelope, response) = "send" ->
                /\ pc' = "deliver"
                /\ UNCHANGED resp
         [] Route(cur.envelope, response) = "raise" ->
                /\ pc' = "idle"
                /\ resp' = Dropped
         [] OTHER ->
                /\ pc' = "ack"
                /\ UNCHANGED resp
    /\ UNCHANGED <<HANDLER, inbox, audit, received, cur, response, invoked, replies>>

\* Deliver with one retry of a failed call.
Deliver_RetriesOnce(delivered) ==
    /\ pc = "deliver"
    /\ replies' = Append(replies, Outbound(cur.envelope.replyTo,
                                           ReplyEnvelope(cur.envelope, response),
                                           delivered))
    /\ pc' = IF ~delivered /\ replies = <<>> THEN "deliver" ELSE "ack"
    /\ UNCHANGED <<HANDLER, inbox, audit, received, cur, response, invoked, resp>>

\* urlopen returns, or raises and the exception is swallowed (lines 184-187).
Deliver(delivered) ==
    /\ pc = "deliver"
    /\ replies' = Append(replies, Outbound(cur.envelope.replyTo,
                                           ReplyEnvelope(cur.envelope, response),
                                           delivered))
    /\ pc' = "ack"
    /\ UNCHANGED <<HANDLER, inbox, audit, received, cur, response, invoked, resp>>

\* Lines 126-129.
Ack ==
    /\ pc = "ack"
    /\ resp' = Resp(202, "ack", Get(cur.envelope.id, "?"), <<>>, 0)
    /\ pc' = "idle"
    /\ UNCHANGED <<HANDLER, inbox, audit, received, cur, response, invoked, replies>>

\* ----------------------------------------------------------------- do_GET
Paths == { "/inbox", "/health", "/" }

GetResponse(path, box) ==
    CASE path = "/inbox" -> Resp(200, "inbox", Absent, box, Len(box))
      [] path = "/health" -> Resp(200, "health", MESH_AGENT, <<>>, Len(box))
      [] OTHER -> Resp(404, "empty", Absent, <<>>, 0)

\* Get_ with a draining read: GET /inbox empties the buffer it returns.
Get_Draining(path) ==
    /\ pc = "idle"
    /\ cur' = Request("GET", path, NoBody, NoEnvelope, NoRun)
    /\ resp' = GetResponse(path, inbox)
    /\ inbox' = IF path = "/inbox" THEN <<>> ELSE inbox
    /\ response' = None
    /\ invoked' = FALSE
    /\ replies' = <<>>
    /\ UNCHANGED <<HANDLER, audit, received, pc>>

\* do_GET (lines 131-155).
Get_(path) ==
    /\ pc = "idle"
    /\ cur' = Request("GET", path, NoBody, NoEnvelope, NoRun)
    /\ resp' = GetResponse(path, inbox)
    /\ response' = None
    /\ invoked' = FALSE
    /\ replies' = <<>>
    /\ UNCHANGED <<HANDLER, inbox, audit, received, pc>>

\* ---------------------------------------------------------- specifications
Next ==
    \/ \E post \in Posts : Receive(post.path, post.body, MaxPosts)
    \/ AuditWrite
    \/ AuditFail
    \/ Buffer
    \/ DispatchNone
    \/ \E run \in HandlerRuns : DispatchRun(run)
    \/ RouteReply
    \/ \E delivered \in BOOLEAN : Deliver(delivered)
    \/ Ack
    \/ \E path \in Paths : Get_(path)

Spec == Init /\ [][Next]_vars

\* A sender's stream of distinct well-formed requests: the k-th receipt
\* carries id "s<k>".  Handler, reply and GET outcomes stay free.
StreamEnvelope(k) ==
    Envelope("s" \o ToString(k), "a", "me", "request", U1, "c1", Payload("dict", "hi", "hello"))

StreamBodies(k) ==
    { Body("invalid", NoMessage),
      Body("object", Message("object", "", "dict", StreamEnvelope(k))) }

StreamRuns ==
    { HandlerRun("exit0", "{\"body\": \"ok\"}"), HandlerRun("exit0", "[1]"),
      HandlerRun("nonzero", "") }

NextStream ==
    \/ \E body \in StreamBodies(Len(received) + 1) : Receive("/", body, MaxStream)
    \/ AuditWrite
    \/ Buffer
    \/ DispatchNone
    \/ \E run \in StreamRuns : DispatchRun(run)
    \/ RouteReply
    \/ \E delivered \in BOOLEAN : Deliver(delivered)
    \/ Ack
    \/ \E path \in Paths : Get_(path)

SpecStream == Init /\ [][NextStream]_vars

\* The body a peer receiver gets for a reply envelope: line 177 wraps the
\* JSON-encoded envelope in {"message": ...}, lines 87 and 97 of the peer
\* decode it.  Of its keys the peer reads id, from, to, type, replyTo,
\* replyContext and payload; a key the envelope lacks is absent.
WireBody(reply_envelope) ==
    Body("object",
         Message("string", "<json>", "dict",
                 Envelope(reply_envelope.id, reply_envelope.from, reply_envelope.to,
                          reply_envelope.type,
                          IF "replyTo" \in DOMAIN reply_envelope
                          THEN reply_envelope.replyTo
                          ELSE NoReplyTo,
                          reply_envelope.replyContext,
                          Payload("dict", reply_envelope.payload.subject,
                                  reply_envelope.payload.body))))

\* Every reply a receiver sends, as the body its peer gets.
ReplyBodies ==
    { WireBody(ReplyEnvelope(q[1], dispatch_to_handler(q[2]))) :
        q \in { p \in Envelopes \X HandlerRuns :
                    /\ ReadFields(p[1]) = "ok"
                    /\ Route(p[1], dispatch_to_handler(p[2])) = "send" } }

\* A receiver facing a peer that runs the same code: it gets requests and
\* the replies the peer sends.
PeerBodies ==
    ReplyBodies
    \cup { Body("object", Message("object", "", "dict", e)) :
             e \in { f \in Envelopes : f.type = "request" /\ f.replyTo.shape = "dict"
                                        /\ f.payload.shape # "other" } }

NextPeer ==
    \/ \E body \in PeerBodies : Receive("/", body, MaxPosts)
    \/ AuditWrite
    \/ AuditFail
    \/ Buffer
    \/ DispatchNone
    \/ \E run \in HandlerRuns : DispatchRun(run)
    \/ RouteReply
    \/ \E delivered \in BOOLEAN : Deliver(delivered)
    \/ Ack
    \/ \E path \in Paths : Get_(path)

SpecPeer == Init /\ [][NextPeer]_vars

\* ------------------------------------------------------------- properties
\* A POST has been served to its end.
PostServed == pc = "idle" /\ cur.method = "POST"

\* The envelope of the request being served has passed lines 112-114.
Buffered == cur.method = "POST" /\ pc \in {"dispatch", "route", "deliver", "ack", "idle"}
                /\ Decode(cur.body).outcome = "ok"

\* The receipts whose append has run, in arrival order.
Stored == IF pc \in {"audit", "buffer"} THEN Front(received) ELSE received

Min(a, b) == IF a < b THEN a ELSE b
LastN(s, n) == SubSeq(s, Len(s) - n + 1, Len(s))

HandlerFailed == cur.method = "POST" /\ cur.run.how \in {"nonzero", "timeout", "exception"}

NestedUnparsable ==
    /\ cur.method = "POST"
    /\ cur.body.outer = "object"
    /\ cur.body.message.kind = "string"
    /\ cur.body.message.loads = "invalid"

\* C1: every POST whose outer body is valid JSON ends with a 202
\* acknowledgment, whatever the audit write, the handler and the reply
\* delivery did.
C1_AckUnconditional ==
    (PostServed /\ cur.body.outer # "invalid") => resp.status = 202

\* C2: every POST whose body is valid JSON, whatever the shape of the outer
\* value and of its message field, is answered 202 with {ok: true, id}, id
\* being the id of the envelope its message holds.
C2_AckCarriesId ==
    (PostServed /\ cur.body.outer # "invalid") =>
        /\ resp.status = 202
        /\ resp.kind = "ack"
        /\ resp.id = Get(cur.body.message.env.id, "?")

\* C3: the inbox never holds more than MAX_INBOX entries, in any state.
C3_InboxBounded == Len(inbox) <= MAX_INBOX

C3_Witness ==
    /\ pc = "idle"
    /\ Len(received) > MAX_INBOX
    /\ Len(inbox) = MAX_INBOX

\* C4: after k receipts have been appended the inbox is exactly the last
\* min(k, MAX_INBOX) of them, in arrival order.
C4_InboxIsLastReceipts ==
    inbox = LastN(Stored, Min(Len(Stored), MAX_INBOX))

C4_Witness ==
    /\ pc = "idle"
    /\ Len(received) = MAX_INBOX + 1
    /\ Len(inbox) = MAX_INBOX
    /\ \A i \in 1..Len(inbox) : inbox[i] # received[1] /\ inbox[i] = received[i + 1]

\* C5: an outbound reply call is made for a POST only if its envelope's type
\* is "request", the dispatcher returned a non-empty response and the
\* envelope's replyTo.url is present.
C5_ReplyOnlyWhenAllHold ==
    (pc = "deliver" \/ replies # <<>>) =>
        /\ cur.envelope.type = "request"
        /\ response # None /\ ~response.empty
        /\ cur.envelope.replyTo.shape = "dict"
        /\ cur.envelope.replyTo.url \notin {Absent, Null, ""}

C5_Witness ==
    /\ PostServed
    /\ Len(replies) = 1
    /\ cur.envelope.type = "request"

\* C6: with no handler configured no external process is ever invoked and
\* no reply is ever sent, whatever the envelope.
C6_NoHandlerNoReply ==
    ~HANDLER => (~invoked /\ replies = <<>> /\ pc # "deliver" /\ response = None)

C6_Witness ==
    /\ ~HANDLER
    /\ PostServed
    /\ resp.status = 202
    /\ cur.envelope.type = "request"
    /\ cur.envelope.replyTo = U1

\* C7: when the configured handler exits nonzero, times out or cannot be
\* run, the dispatcher yields None, no reply is sent, the envelope is in the
\* inbox and the request is answered 202.
C7_HandlerFailureIsSoft ==
    HandlerFailed =>
        /\ response = None
        /\ replies = <<>>
        /\ pc \in {"route", "ack", "idle"}
        /\ inbox # <<>> /\ inbox[Len(inbox)] = cur.envelope
        /\ pc = "idle" => resp.status = 202

C7_Witness ==
    /\ PostServed
    /\ cur.run = HandlerRun("nonzero", "{\"body\": \"ok\"}")
    /\ cur.envelope.type = "request"
    /\ cur.envelope.replyTo = U1
    /\ resp.status = 202

C9_UnparsableNestedDegrades ==
    NestedUnparsable =>
        /\ resp.status \notin {400} /\ resp # Dropped
        /\ pc # "idle" \/ resp.status = 202
        /\ cur.envelope.payload.body = cur.body.message.text
        /\ Buffered => (inbox # <<>> /\ inbox[Len(inbox)].payload.body = cur.body.message.text)
        /\ (HANDLER /\ pc \in {"route", "ack", "idle"}) => invoked

C9_Witness ==
    /\ NestedUnparsable
    /\ PostServed
    /\ cur.body.message.text = "not json"
    /\ inbox[Len(inbox)].payload.body = "not json"
    /\ invoked
    /\ resp.status = 202

\* What every reply of C10 has apart from its payload.body.
ReplyHeaderRight(r) ==
    /\ r.message.type = "response"
    /\ r.message.correlationId = Get(cur.envelope.id, Null)
    /\ r.message.to = Get(cur.envelope.from, "?")
    /\ r.message.from = MESH_AGENT
    /\ r.message.replyContext = Get(cur.envelope.replyContext, Null)
    /\ r.url = cur.envelope.replyTo.url

\* C10 as stated: every reply sent for a request has type "response",
\* correlationId the request's id, to the request's sender, from this
\* agent, the request's replyContext, goes to the request's replyTo.url,
\* and has payload.body equal to the handler response's body field.
C10_ReplyBodyIsBodyField ==
    \A i \in 1..Len(replies) :
        /\ ReplyHeaderRight(replies[i])
        /\ replies[i].message.payload.body = response.body

\* C10 as amended: the same, with payload.body equal to the response's body
\* field when it has one and to the JSON serialization of the whole
\* response when it has none.
C10_ReplyEnvelopeCorrelated ==
    \A i \in 1..Len(replies) :
        /\ ReplyHeaderRight(replies[i])
        /\ response.body # Absent => replies[i].message.payload.body = response.body
        /\ response.body = Absent => replies[i].message.payload.body = response.text

C10_Witness ==
    /\ PostServed
    /\ Len(replies) = 1
    /\ response.body = Absent
    /\ replies[1].message.payload.body = "{\"result\": 1}"
    /\ replies[1].message.correlationId = "m1"


\* C11: at most one outbound reply call is made per request; whether it
\* succeeds or fails, the call changes neither the inbox nor the audit log,
\* is followed by the acknowledgment, and the request is answered 202 with
\* the same body.
C11_ReplyAttemptedOnce ==
    /\ [](Len(replies) <= 1)
    /\ []((PostServed /\ replies # <<>>) =>
            resp = Resp(202, "ack", Get(cur.envelope.id, "?"), <<>>, 0))
    /\ [][pc = "deliver" =>
            /\ pc' = "ack"
            /\ Len(replies') = 1
            /\ inbox' = inbox
            /\ audit' = audit
            /\ resp' = resp]_vars

C11_Witness ==
    /\ PostServed
    /\ Len(replies) = 1
    /\ ~replies[1].delivered
    /\ resp.status = 202
    /\ audit # <<>>


\* The routes of the HTTP surface.
KnownRoute ==
    \/ cur.method = "POST" /\ cur.path = "/"
    \/ cur.method = "GET" /\ cur.path \in {"/inbox", "/health"}

\* C12: a request that is not POST /, GET /inbox or GET /health is answered
\* 404 and is not processed as an envelope.
C12_UnknownRouteIs404 ==
    (cur.method # "none" /\ ~KnownRoute) =>
        /\ pc = "idle"
        /\ resp.status = 404
        /\ ~invoked
        /\ replies = <<>>


GetServed(path) == pc = "idle" /\ cur.method = "GET" /\ cur.path = path

\* C13: GET /inbox and GET /health change neither the inbox nor the audit
\* log; what GET /inbox returned is the whole buffer with its length as
\* count, and what GET /health returned is the number of buffered (not
\* evicted) envelopes.
C13_ReadsAreSnapshots ==
    /\ [](GetServed("/inbox") =>
            /\ resp.status = 200
            /\ resp.messages = inbox
            /\ resp.count = Len(resp.messages)
            /\ resp.messages = LastN(received, Min(Len(received), MAX_INBOX)))
    /\ [](GetServed("/health") =>
            /\ resp.status = 200
            /\ resp.count = Len(inbox)
            /\ resp.count = Min(Len(received), MAX_INBOX))
    /\ [][(pc = "idle" /\ cur'.method = "GET") =>
            (inbox' = inbox /\ audit' = audit /\ received' = received /\ pc' = "idle")]_vars

C13_Witness ==
    /\ GetServed("/health")
    /\ Len(received) > MAX_INBOX
    /\ resp.count = MAX_INBOX


\* The receipt being served is past log_message.
PastAudit == IF pc = "audit" THEN Front(received) ELSE received

\* The audit line of a received envelope carries its id, from, to and type
\* ("?", this agent and "?" standing in for a missing one).
EntryOf(entry, envelope) ==
    /\ entry.status = "received"
    /\ entry.id = Get(envelope.id, "?")
    /\ entry.from = Get(envelope.from, "?")
    /\ entry.to = Get(envelope.to, MESH_AGENT)
    /\ entry.type = Get(envelope.type, "?")

\* C14: the audit log only grows, by one "received" entry at the end per
\* decoded POST whose write succeeds, carrying that envelope's id, from, to
\* and type; entries are never changed or removed and stand in arrival
\* order.
C14_AuditAppendOnly ==
    /\ [](Len(audit) <= Len(PastAudit))
    /\ [][audit' # audit =>
            /\ pc = "audit"
            /\ pc' = "buffer"
            /\ Len(audit') = Len(audit) + 1
            /\ SubSeq(audit', 1, Len(audit)) = audit
            /\ EntryOf(audit'[Len(audit')], received[Len(received)])]_vars

C14_Witness ==
    /\ pc = "idle"
    /\ Len(audit) = 2
    /\ EntryOf(audit[1], received[1])
    /\ EntryOf(audit[2], received[2])
    /\ received[1].id = "m1"
    /\ received[2].id = Absent


\* C15: every reply the router sends adds an audit entry for the send, with
\* status "sent" or "error", next to the "received" entry of the request.
C15_SendsAreAudited ==
    (replies # <<>> /\ pc \in {"ack", "idle"}) =>
        \E i \in 1..Len(audit) : audit[i].status \in {"sent", "error"}

\* C16: the subject of every audit entry is at most the bounded prefix of
\* the envelope's subject.
C16_AuditSubjectBounded ==
    \A i \in 1..Len(audit) : Len(audit[i].subject) <= SubjectPrefix

\* C19: every reply envelope sent has a correlationId that is set, also for
\* a request whose envelope has no id.
C19_ReplyHasCorrelationId ==
    \A i \in 1..Len(replies) : replies[i].message.correlationId \notin {Null, Absent}


\* C17: within one POST, log_message runs before the append, the append
\* before the handler, the reply call after the handler has returned, and
\* the 202 only once dispatch and reply routing are over; when the handler
\* runs the envelope is in the inbox and log_message has written its entry
\* (or failed to).
C17_StepsInOrder ==
    /\ [](invoked => (pc \in {"route", "deliver", "ack", "idle"}
                      /\ inbox # <<>> /\ inbox[Len(inbox)] = cur.envelope))
    /\ []((cur.method = "POST" /\ resp.status = 202) =>
            /\ pc = "idle"
            /\ HANDLER => invoked
            /\ Route(cur.envelope, response) = "send" => Len(replies) = 1)
    /\ [][/\ audit' # audit =>
                /\ pc = "audit" /\ pc' = "buffer"
                /\ inbox' = inbox
                /\ ~invoked'
                /\ EntryOf(audit'[Len(audit')], cur.envelope)
          /\ inbox' # inbox =>
                /\ pc = "buffer" /\ pc' = "dispatch"
                /\ ~invoked'
          /\ (pc' = "buffer" /\ pc # "buffer") => pc = "audit"
          /\ (pc' = "dispatch" /\ pc # "dispatch") => pc = "buffer"
          /\ (invoked' /\ ~invoked) => (pc = "dispatch" /\ pc' = "route")
          /\ replies' # replies /\ replies' # <<>> =>
                /\ pc = "deliver" /\ pc' = "ack"
                /\ invoked
                /\ resp'.status # 202
          /\ (resp'.status = 202 /\ resp.status # 202) =>
                (pc = "ack" /\ pc' = "idle")]_vars

C17_Witness ==
    /\ PostServed
    /\ resp.status = 202
    /\ invoked
    /\ Len(replies) = 1
    /\ audit # <<>>
    /\ audit[Len(audit)].id = cur.envelope.id
    /\ inbox[Len(inbox)] = cur.envelope


\* C18: every accepted POST reaches its acknowledgment: when do_POST is
\* over for a POST that was decoded, the request has been answered 202
\* (a handler or a reply target that hangs is ended by its timeout, the
\* runs "timeout" and the failed delivery).
C18_AcceptedPostAcknowledged ==
    (PostServed /\ Decode(cur.body).outcome = "ok") => resp.status = 202


\* The request being served carries a reply envelope a receiver built.
IsReply == cur.method = "POST" /\ cur.envelope.id = "msg_<random>"

\* C20: a reply envelope has type "response" and no replyTo; the receiver
\* that gets one buffers it and answers 202 but never makes a reply call for
\* it, whatever its handler returns, so a request leads to at most one
\* reply.
C20_RepliesGetNoReply ==
    /\ Len(replies) <= 1
    /\ IsReply =>
        /\ cur.envelope.type = "response"
        /\ cur.envelope.replyTo = NoReplyTo
        /\ replies = <<>>
        /\ pc # "deliver"
        /\ Buffered => (inbox # <<>> /\ inbox[Len(inbox)] = cur.envelope)
        /\ pc = "idle" => resp.status = 202

C20_Witness ==
    /\ IsReply
    /\ PostServed
    /\ invoked
    /\ response.shape = "dict" /\ ~response.empty
    /\ cur.envelope.payload.body = "{\"result\": 1}"
    /\ audit # <<>>
    /\ audit[Len(audit)].type = "response"
    /\ resp.status = 202

====
